---- MODULE Spec2Model ----
(***************************************************************************)
(* Model of extractSourceMap (src/index.js): fetch and parse a source map, *)
(* resolve the content of every listed source, clean up each source path   *)
(* and add it to a zip archive, then write the archive.                    *)
(*                                                                         *)
(* Strings that the code inspects (source identifiers, archive paths) are  *)
(* sequences of one-character strings.  A value that may be null is an     *)
(* option: <<>> is null, <<v>> is the value v.                             *)
(***************************************************************************)
EXTENDS Integers, Sequences, FiniteSets, TLC

(* ------------------------------ bounds -------------------------------- *)

\* longest identifier, counted in pieces, that Init enumerates
MaxPieces == 3

\* longest source list that Init enumerates
MaxSources == 2

(* ------------------------- string primitives -------------------------- *)

\* String.prototype.startsWith
StartsWith(s, p) ==
    /\ Len(s) >= Len(p)
    /\ SubSeq(s, 1, Len(p)) = p

\* String.prototype.substring(n)
Substring(s, n) ==
    SubSeq(s, n + 1, Len(s))

\* String.prototype.includes
Includes(s, p) ==
    \E k \in 0..(Len(s) - Len(p)) : SubSeq(s, k + 1, k + Len(p)) = p

RECURSIVE ReplaceAll(_, _, _)
\* String.prototype.replace with a global (/g) literal pattern: leftmost,
\* non-overlapping matches, the replacement text is not rescanned
ReplaceAll(s, pat, rep) ==
    IF s = <<>> THEN <<>>
    ELSE IF StartsWith(s, pat)
         THEN rep \o ReplaceAll(Substring(s, Len(pat)), pat, rep)
         ELSE <<Head(s)>> \o ReplaceAll(Tail(s), pat, rep)

\* String.prototype.replace with a pattern that lacks the /g flag
ReplaceFirst(s, pat, rep) ==
    IF Includes(s, pat)
    THEN LET k == CHOOSE j \in 0..(Len(s) - Len(pat)) :
                     /\ SubSeq(s, j + 1, j + Len(pat)) = pat
                     /\ \A h \in 0..(j - 1) : SubSeq(s, h + 1, h + Len(pat)) # pat
         IN SubSeq(s, 1, k) \o rep \o Substring(s, k + Len(pat))
    ELSE s

(* ----------------------------- constants ------------------------------ *)

\* the character class of the regular expression /[<>:"|?*]/g
IllegalChars ==
    {"<", ">", ":", "\"", "|", "?", "*"}

\* a raw control character (U+0009)
CTL == "\t"

ControlChars ==
    {CTL}

WebpackPrefix ==
    <<"w", "e", "b", "p", "a", "c", "k", ":", "/", "/", ".", "/">>

DotSlash ==
    <<".", "/">>

DotDotSlash ==
    <<".", ".", "/">>

Slash ==
    <<"/">>

ParentSlash ==
    <<"p", "a", "r", "e", "n", "t", "/">>

(* --------------------------- path clean-up ---------------------------- *)

\* source.replace(/[<>:"|?*]/g, '_')
ReplaceIllegalChars(source) ==
    [k \in 1..Len(source) |-> IF source[k] \in IllegalChars THEN "_" ELSE source[k]]

\* the prefix chain with the global flag dropped from /\.\.\//g
StripPrefix_FirstOnly(cleanPath) ==
    IF StartsWith(cleanPath, WebpackPrefix)
    THEN Substring(cleanPath, Len(WebpackPrefix))
    ELSE IF StartsWith(cleanPath, DotSlash)
         THEN Substring(cleanPath, Len(DotSlash))
         ELSE IF StartsWith(cleanPath, DotDotSlash)
              THEN ReplaceFirst(cleanPath, DotDotSlash, ParentSlash)
              ELSE cleanPath

\* "Handle relative paths and webpack paths": an if / else-if chain, so at
\* most one of the three branches applies
StripPrefix(cleanPath) ==
    IF StartsWith(cleanPath, WebpackPrefix)
    THEN Substring(cleanPath, Len(WebpackPrefix))
    ELSE IF StartsWith(cleanPath, DotSlash)
         THEN Substring(cleanPath, Len(DotSlash))
         ELSE IF StartsWith(cleanPath, DotDotSlash)
              THEN ReplaceAll(cleanPath, DotDotSlash, ParentSlash)
              ELSE cleanPath

\* "Ensure we have a valid path": one leading slash is removed
StripLeadingSlash(cleanPath) ==
    IF StartsWith(cleanPath, Slash) THEN Substring(cleanPath, 1) ELSE cleanPath

\* the name handed to zip.file for one source identifier
CleanPath(source) ==
    StripLeadingSlash(StripPrefix(ReplaceIllegalChars(source)))

(* ------------------------------- inputs ------------------------------- *)

ExWebpack ==
    <<"w", "e", "b", "p", "a", "c", "k", ":", "/", "/", ".", "/", "s", "r", "c", "/", "a", ".", "j", "s">>

ExDotSlash ==
    <<".", "/", "u", "t", "i", "l", "s", "/", "h", "e", "l", "p", "e", "r", "s", ".", "j", "s">>

ExParent1 ==
    <<".", ".", "/", "s", "h", "a", "r", "e", "d", "/", "c", "o", "n", "s", "t", "a", "n", "t", "s", ".", "j", "s">>

ExParent2 ==
    <<".", ".", "/", ".", ".", "/", "s", "h", "a", "r", "e", "d", "/", "x", ".", "j", "s">>

ExIllegal ==
    <<"a", "<", "b", ">", "c", ":", "\"", "d", "|", "e", "?", "f", "*", "g", ".", "j", "s">>

ExManifest ==
    <<"p", "a", "c", "k", "a", "g", "e", ".", "j", "s", "o", "n">>

\* the identifiers the documentation uses as examples
DocumentedIds ==
    {ExWebpack, ExDotSlash, ExParent1, ExParent2, ExIllegal, ExManifest}

\* building blocks of the enumerated identifiers
Pieces ==
    {WebpackPrefix, DotSlash, DotDotSlash, Slash, <<"a">>, <<".">>, <<":">>, <<"?">>, <<CTL>>}

RECURSIVE PieceIds(_)
\* every identifier made of 1..n pieces
PieceIds(n) ==
    IF n = 0 THEN {}
    ELSE IF n = 1 THEN Pieces
         ELSE LET shorter == PieceIds(n - 1)
              IN shorter \cup {s \o p : s \in shorter, p \in Pieces}

AJs ==
    <<"a", ".", "j", "s">>

DotAJs ==
    <<".", "/", "a", ".", "j", "s">>

SlashAJs ==
    <<"/", "a", ".", "j", "s">>

BJs ==
    <<"b", ".", "j", "s">>

\* identifiers of the enumerated multi-entry source lists
ListIds ==
    {AJs, DotAJs, SlashAJs, BJs}

\* embedded contents: the empty string and two distinct texts
Texts ==
    {<<>>, <<"X">>, <<"Y">>}

\* one element of sourcesContent: null or a text
ContentOptions ==
    {<<>>} \cup {<<t>> : t \in Texts}

RECURSIVE ListsUpTo(_, _)
\* the sequences over S of length 1..n
ListsUpTo(S, n) ==
    IF n = 0 THEN {}
    ELSE IF n = 1 THEN {<<x>> : x \in S}
         ELSE LET shorter == ListsUpTo(S, n - 1)
              IN shorter \cup {l \o <<x>> : l \in shorter, x \in S}

\* consumer.sourceContentFor is keyed by the identifier, so entries that
\* carry the same identifier carry the same content
KeyedByIdentifier(entries) ==
    \A j, k \in 1..Len(entries) :
        entries[j].source = entries[k].source => entries[j].content = entries[k].content

\* the parsed source maps the model runs on
InputMaps ==
    {<<[source |-> id, content |-> c]>> :
         id \in PieceIds(MaxPieces) \cup DocumentedIds, c \in {<<>>, <<(<<"X">>)>>}}
    \cup
    {l \in ListsUpTo([source : ListIds, content : ContentOptions], MaxSources) :
         KeyedByIdentifier(l)}

(* ------------------------------- state -------------------------------- *)

VARIABLES
    sources,        \* consumer.sources: the identifiers, in order
    sourcesContent, \* the map's sourcesContent, aligned with sources
    pc,             \* where extractSourceMap stands
    rawData,        \* null, or the text fetched from sourceMapURL
    rawSourceMap,   \* null, or the result of JSON.parse(rawData)
    idx,            \* 1-based position of the for..of loop
    zip,            \* the JSZip object: file name -> content
    stored,         \* per entry: null, or the name and content given to zip.file
    fetchCalls,     \* per entry: how often fetchUrl was called for it
    failReason,     \* per entry: null, or the message of the caught fetch error
    writeCalls,     \* how often fs.writeFile was called
    written,        \* null, or the archive that reached the output file
    error,          \* "none", or what the outer catch block caught
    outcome         \* how the call ended, as its caller sees it

vars ==
    <<sources, sourcesContent, pc, rawData, rawSourceMap, idx, zip, stored,
      fetchCalls, failReason, writeCalls, written, error, outcome>>

\* messages of the errors fetchUrl rejects with
FetchErrors ==
    {"HTTP error! status: 404", "ECONNREFUSED", "Request timeout"}

\* message of the TypeError thrown by new URL(source, sourceMapURL)
InvalidUrl == "Invalid URL"

\* errors that reach the outer catch block before the consumer exists
MapErrors ==
    FetchErrors \cup {"Unexpected token in JSON"}

WriteError == "EACCES"

\* body returned by a successful fetch of a source file
FetchedBody ==
    <<"F">>

RECURSIVE FirstIndexOf(_, _, _)
\* the first position at or after k of source in the list
FirstIndexOf(list, source, k) ==
    IF list[k] = source THEN k ELSE FirstIndexOf(list, source, k + 1)

\* consumer.sourceContentFor(source): looked up by identifier
sourceContentFor(source) ==
    sourcesContent[FirstIndexOf(sources, source, 1)]

RECURSIVE SkipSlashes(_)
\* the input behind a run of "/"
SkipSlashes(s) ==
    IF StartsWith(s, Slash) THEN SkipSlashes(Tail(s)) ELSE s

\* new URL(source, sourceMapURL) throws: identifiers that, once the URL parser
\* has dropped tabs, start with "//" and name no host.  (Other identifiers
\* resolve against the http(s) URL of the map.)
UrlIsInvalid(source) ==
    LET input == SelectSeq(source, LAMBDA c : c # CTL)
        host == SkipSlashes(input)
    IN /\ StartsWith(input, <<"/", "/">>)
       /\ (IF host = <<>> THEN TRUE ELSE Head(host) \in {":", "?"})

\* `// Error fetching source: ${source}\n// ${error.message}`
Placeholder(source, message) ==
    <<"// Error fetching source: ">> \o source \o <<"\n// ", message>>

\* zip.file(name, content): adds the file, replacing a file of that name
zipFile(z, name, content) ==
    [n \in (DOMAIN z) \cup {name} |-> IF n = name THEN content ELSE z[n]]

\* the loop body from the clean-up to zip.file, and the step to the next entry
Insert(content) ==
    LET cleanPath == CleanPath(sources[idx])
    IN /\ zip' = zipFile(zip, cleanPath, content)
       /\ stored' = [stored EXCEPT ![idx] = <<[path |-> cleanPath, content |-> content]>>]
       /\ idx' = idx + 1

\* the for..of loop has an entry left
InLoop ==
    /\ pc = "loop"
    /\ idx <= Len(sources)

\* the for..of loop with its exit test dropped
LoopDone_Early ==
    pc = "loop"

\* the for..of loop has run over every entry
LoopDone ==
    /\ pc = "loop"
    /\ idx > Len(sources)

\* process.exit(1) in the outer catch block
Exit(message) ==
    /\ error' = message
    /\ outcome' = "exited"
    /\ pc' = "exited"

Init ==
    /\ \E m \in InputMaps :
          /\ sources = [k \in 1..Len(m) |-> m[k].source]
          /\ sourcesContent = [k \in 1..Len(m) |-> m[k].content]
    /\ pc = "fetchMap"
    /\ rawData = <<>>
    /\ rawSourceMap = <<>>
    /\ idx = 1
    /\ zip = <<>>
    /\ stored = [k \in 1..Len(sources) |-> <<>>]
    /\ fetchCalls = [k \in 1..Len(sources) |-> 0]
    /\ failReason = [k \in 1..Len(sources) |-> <<>>]
    /\ writeCalls = 0
    /\ written = <<>>
    /\ error = "none"
    /\ outcome = "pending"

(* ------------------------------ actions ------------------------------- *)

\* await fetchUrl(sourceMapURL) resolves
FetchMapOk ==
    /\ pc = "fetchMap"
    /\ rawData' = <<"data">>
    /\ pc' = "parse"
    /\ UNCHANGED <<sources, sourcesContent, rawSourceMap, idx, zip, stored, fetchCalls,
                   failReason, writeCalls, written, error, outcome>>

\* await fetchUrl(sourceMapURL) rejects
FetchMapFail ==
    /\ pc = "fetchMap"
    /\ \E message \in FetchErrors : Exit(message)
    /\ UNCHANGED <<sources, sourcesContent, rawData, rawSourceMap, idx, zip, stored, fetchCalls,
                   failReason, writeCalls, written>>

\* JSON.parse and SourceMapConsumer.with accept the document
ParseOk ==
    /\ pc = "parse"
    /\ rawSourceMap' = <<"map">>
    /\ pc' = "loop"
    /\ UNCHANGED <<sources, sourcesContent, rawData, idx, zip, stored, fetchCalls,
                   failReason, writeCalls, written, error, outcome>>

\* JSON.parse or the SourceMapConsumer throws
ParseFail ==
    /\ pc = "parse"
    /\ Exit("Unexpected token in JSON")
    /\ UNCHANGED <<sources, sourcesContent, rawData, rawSourceMap, idx, zip, stored, fetchCalls,
                   failReason, writeCalls, written>>

\* content !== null: the embedded content is stored
EntryEmbedded ==
    /\ InLoop
    /\ sourceContentFor(sources[idx]) # <<>>
    /\ Insert(sourceContentFor(sources[idx])[1])
    /\ UNCHANGED <<sources, sourcesContent, rawData, rawSourceMap, pc, fetchCalls, failReason,
                   writeCalls, written, error, outcome>>

\* content === null and new URL(source, sourceMapURL) throws
EntryUrlInvalid ==
    /\ InLoop
    /\ sourceContentFor(sources[idx]) = <<>>
    /\ UrlIsInvalid(sources[idx])
    /\ failReason' = [failReason EXCEPT ![idx] = <<InvalidUrl>>]
    /\ Insert(Placeholder(sources[idx], InvalidUrl))
    /\ UNCHANGED <<sources, sourcesContent, rawData, rawSourceMap, pc, fetchCalls,
                   writeCalls, written, error, outcome>>

\* content === null: fetchUrl(url.href) is called and awaited
EntryStartFetch ==
    /\ InLoop
    /\ sourceContentFor(sources[idx]) = <<>>
    /\ ~UrlIsInvalid(sources[idx])
    /\ fetchCalls' = [fetchCalls EXCEPT ![idx] = @ + 1]
    /\ pc' = "awaitFetch"
    /\ UNCHANGED <<sources, sourcesContent, rawData, rawSourceMap, idx, zip, stored, failReason,
                   writeCalls, written, error, outcome>>

\* the fetch of the source file resolves
FetchSourceOk ==
    /\ pc = "awaitFetch"
    /\ Insert(FetchedBody)
    /\ pc' = "loop"
    /\ UNCHANGED <<sources, sourcesContent, rawData, rawSourceMap, fetchCalls, failReason,
                   writeCalls, written, error, outcome>>

\* the fetch of the source file rejects; the inner catch block stores a placeholder
FetchSourceFail ==
    /\ pc = "awaitFetch"
    /\ \E message \in FetchErrors :
          /\ failReason' = [failReason EXCEPT ![idx] = <<message>>]
          /\ Insert(Placeholder(sources[idx], message))
    /\ pc' = "loop"
    /\ UNCHANGED <<sources, sourcesContent, rawData, rawSourceMap, fetchCalls,
                   writeCalls, written, error, outcome>>

\* after the loop: zip.generateAsync, then fs.writeFile is called
GenerateZip ==
    /\ LoopDone
    /\ writeCalls' = writeCalls + 1
    /\ pc' = "write"
    /\ UNCHANGED <<sources, sourcesContent, rawData, rawSourceMap, idx, zip, stored, fetchCalls,
                   failReason, written, error, outcome>>

\* fs.writeFile resolves and extractSourceMap returns
WriteOk ==
    /\ pc = "write"
    /\ written' = <<zip>>
    /\ outcome' = "fulfilled"
    /\ pc' = "done"
    /\ UNCHANGED <<sources, sourcesContent, rawData, rawSourceMap, idx, zip, stored, fetchCalls,
                   failReason, writeCalls, error>>

\* fs.writeFile rejects
WriteFail ==
    /\ pc = "write"
    /\ Exit(WriteError)
    /\ UNCHANGED <<sources, sourcesContent, rawData, rawSourceMap, idx, zip, stored, fetchCalls,
                   failReason, writeCalls, written>>

Next ==
    \/ FetchMapOk
    \/ FetchMapFail
    \/ ParseOk
    \/ ParseFail
    \/ EntryEmbedded
    \/ EntryUrlInvalid
    \/ EntryStartFetch
    \/ FetchSourceOk
    \/ FetchSourceFail
    \/ GenerateZip
    \/ WriteOk
    \/ WriteFail

Spec ==
    Init /\ [][Next]_vars

TypeOK ==
    /\ pc \in {"fetchMap", "parse", "loop", "awaitFetch", "write", "done", "exited"}
    /\ idx \in 1..(Len(sources) + 1)
    /\ Len(sourcesContent) = Len(sources)
    /\ rawData \in {<<>>, <<"data">>}
    /\ rawSourceMap \in {<<>>, <<"map">>}
    /\ writeCalls \in 0..1
    /\ error \in {"none", WriteError} \cup MapErrors
    /\ outcome \in {"pending", "fulfilled", "rejected", "exited"}
    /\ \A k \in 1..Len(sources) : fetchCalls[k] \in 0..1

(* ------------------------- vocabulary of the claims ------------------- *)

\* entry k has been added to the archive
Stored(k) ==
    stored[k] # <<>>

\* the name under which entry k was added
PathOf(k) ==
    stored[k][1].path

\* the content with which entry k was added
ContentOf(k) ==
    stored[k][1].content

RECURSIVE Repeat(_, _)
\* n copies of s
Repeat(s, n) ==
    IF n = 0 THEN <<>> ELSE s \o Repeat(s, n - 1)

RECURSIVE LeadingParents(_)
\* how many "../" an identifier starts with
LeadingParents(s) ==
    IF StartsWith(s, DotDotSlash) THEN 1 + LeadingParents(Substring(s, 3)) ELSE 0

\* seg is a whole segment of p that starts at position k
SegmentAt(p, seg, k) ==
    /\ k + Len(seg) - 1 <= Len(p)
    /\ SubSeq(p, k, k + Len(seg) - 1) = seg
    /\ (IF k = 1 THEN TRUE ELSE p[k - 1] = "/")
    /\ (IF k + Len(seg) - 1 = Len(p) THEN TRUE ELSE p[k + Len(seg)] = "/")

\* p has a segment seg
HasSegment(p, seg) ==
    \E k \in 1..Len(p) : SegmentAt(p, seg, k)

\* p has a parent-directory segment "../"
HasParentSegment(p) ==
    \E k \in 1..(Len(p) - 2) : SegmentAt(p, <<".", ".">>, k)

\* a relative path with nothing to clean up: not empty, no illegal or control
\* character, no leading "/", no "." or ".." segment and no "../" in it
IsCleanRelative(p) ==
    /\ p # <<>>
    /\ \A k \in 1..Len(p) : p[k] \notin IllegalChars \cup ControlChars
    /\ ~StartsWith(p, Slash)
    /\ ~HasSegment(p, <<".">>)
    /\ ~HasSegment(p, <<".", ".">>)
    /\ ~Includes(p, DotDotSlash)

\* the path is made of "." and ".." segments only
OnlyDotSegments(p) ==
    /\ \A k \in 1..Len(p) : p[k] \in {".", "/"}
    /\ ~Includes(p, <<".", ".", ".">>)
    /\ ~Includes(p, <<"/", "/">>)

\* position of the last "/" of p, or 0
LastSlash(p) ==
    IF \E k \in 1..Len(p) : p[k] = "/"
    THEN CHOOSE k \in 1..Len(p) : p[k] = "/" /\ \A j \in (k + 1)..Len(p) : p[j] # "/"
    ELSE 0

\* position of the "." that starts the extension of the file name, or 0
ExtensionDot(p) ==
    IF \E k \in (LastSlash(p) + 2)..Len(p) : p[k] = "."
    THEN CHOOSE k \in (LastSlash(p) + 2)..Len(p) :
             p[k] = "." /\ \A j \in (k + 1)..Len(p) : p[j] # "."
    ELSE 0

\* name.ext for n = 0, name_n.ext for n > 0
WithSuffix(p, n) ==
    IF n = 0 THEN p
    ELSE IF ExtensionDot(p) = 0 THEN p \o <<"_", ToString(n)>>
         ELSE SubSeq(p, 1, ExtensionDot(p) - 1) \o <<"_", ToString(n)>>
              \o SubSeq(p, ExtensionDot(p), Len(p))

\* how many earlier entries were added under the name of entry k
EarlierCollisions(k) ==
    Cardinality({j \in 1..(k - 1) : PathOf(j) = PathOf(k)})

\* the archive that was written holds content c under name p
WrittenHolds(p, c) ==
    /\ written # <<>>
    /\ p \in DOMAIN written[1]
    /\ written[1][p] = c

(* ------------------------------- claims ------------------------------- *)

\* C1: no path under which an entry is stored contains a "../" segment,
\* wherever the "../" stood in the identifier.
C1_NoParentSegment ==
    \A k \in 1..Len(sources) :
        Stored(k) => ~HasParentSegment(PathOf(k))

\* C2: entries that normalize to the same path do not overwrite each other:
\* the n-th later one is found under name_n.ext, each with its own content.
C2_CollisionsGetSuffixes ==
    pc = "done" =>
        \A k \in 1..Len(sources) :
            WrittenHolds(WithSuffix(PathOf(k), EarlierCollisions(k)), ContentOf(k))

\* C3: an identifier webpack://./p with p a clean relative path is stored
\* under p; webpack://./src/a.js is stored under src/a.js.
C3_WebpackPrefixStripped ==
    \A k \in 1..Len(sources) :
        (/\ Stored(k)
         /\ StartsWith(sources[k], WebpackPrefix)
         /\ IsCleanRelative(Substring(sources[k], Len(WebpackPrefix))))
        => PathOf(k) = Substring(sources[k], Len(WebpackPrefix))

\* C4, first part: a failed fetch of a source does not abort the run and the
\* loop goes on to every later entry.
C4_FailureDoesNotAbort ==
    /\ (\E k \in 1..Len(sources) : failReason[k] # <<>>) => error \in {"none", WriteError}
    /\ pc \in {"write", "done"} => \A k \in 1..Len(sources) : Stored(k)

\* C4, second part: the archive holds, at the path of each failed source, the
\* placeholder that records the identifier and the reason.
C4_PlaceholderInArchive ==
    pc = "done" =>
        \A k \in 1..Len(sources) :
            failReason[k] # <<>> =>
                WrittenHolds(PathOf(k), Placeholder(sources[k], failReason[k][1]))

\* C4, third part: what is stored for the other entries does not depend on
\* the failure: embedded content, or else the fetched body.
C4_OthersUnaffected ==
    \A k \in 1..Len(sources) :
        (Stored(k) /\ failReason[k] = <<>>) =>
            ContentOf(k) = IF sourcesContent[k] # <<>> THEN sourcesContent[k][1]
                                                       ELSE FetchedBody

\* C4: failed fetches of sources do not abort the extraction, every later entry
\* is processed, the archive holds a placeholder with identifier and reason at
\* each failed source's path, and the other entries are stored as without the
\* failure.
C4_FetchFailureIsolated ==
    /\ C4_FailureDoesNotAbort
    /\ C4_PlaceholderInArchive
    /\ C4_OthersUnaffected

\* C5: when the map cannot be retrieved or parsed, or the archive cannot be
\* written, the call ends by rejecting to its caller.
C5_FailurePropagates ==
    error # "none" => outcome = "rejected"

\* C6: the stored path is never empty and never made of "." and ".."
\* segments only.
C6_PathNotEmptyNorDots ==
    \A k \in 1..Len(sources) :
        Stored(k) => (PathOf(k) # <<>> /\ ~OnlyDotSegments(PathOf(k)))

ExIllegalCleaned ==
    <<"a", "_", "b", "_", "c", "_", "_", "d", "_", "e", "_", "f", "_", "g", ".", "j", "s">>

\* C7: the stored path contains none of < > : " | ? * and no control
\* character; a<b>c:"d|e?f*g.js is stored as a_b_c__d_e_f_g.js.
C7_NoIllegalCharacter ==
    \A k \in 1..Len(sources) :
        Stored(k) =>
            /\ \A j \in 1..Len(PathOf(k)) : PathOf(k)[j] \notin IllegalChars \cup ControlChars
            /\ sources[k] = ExIllegal => PathOf(k) = ExIllegalCleaned

C9_FetchOnlyForNull ==
    \A k \in 1..Len(sources) :
        /\ fetchCalls[k] <= 1
        /\ fetchCalls[k] > 0 => sourcesContent[k] = <<>>

\* C9, second part: the archive holds the embedded content of every entry
\* that has one, the empty string included.
C9_EmbeddedInArchive ==
    pc = "done" =>
        \A k \in 1..Len(sources) :
            sourcesContent[k] # <<>> => WrittenHolds(PathOf(k), sourcesContent[k][1])

\* C9: for every entry with embedded content (the empty string included) the
\* archive stores exactly that content and fetchUrl is never called for it;
\* fetchUrl is called only for entries with null content, at most once each.
C9_EmbeddedStoredVerbatim ==
    /\ C9_FetchOnlyForNull
    /\ C9_EmbeddedInArchive

\* C10: fs.writeFile is called at most once, and only after the map was
\* fetched and parsed and every entry was resolved and added to the archive;
\* when fetching or parsing the map fails, nothing is ever written.
C10_WriteOnceAfterAll ==
    /\ writeCalls <= 1
    /\ writeCalls = 1 =>
           /\ rawData # <<>>
           /\ rawSourceMap # <<>>
           /\ \A k \in 1..Len(sources) : Stored(k)
    /\ written # <<>> => writeCalls = 1
    /\ error \in MapErrors => (writeCalls = 0 /\ written = <<>>)

\* the archive of a two-entry map, one entry of it a placeholder, was written
C10_Witness ==
    /\ written # <<>>
    /\ Len(sources) = 2
    /\ \E k \in 1..Len(sources) : failReason[k] # <<>>

====
